---- MODULE Spec2Model ----
(***************************************************************************)
(* A model of scripts/install_ps4_firmware.py: the PUP container parser    *)
(* (PUP.parse), the entry extractor (PUP.extract) and the command-line     *)
(* driver (main).  One behaviour of the model is one run of the script on  *)
(* one input file and one initial state of the working directory.          *)
(***************************************************************************)
EXTENDS Integers, Sequences, FiniteSets, TLC

VARIABLES
    input,      \* the run's environment: argv, the PUP file, the directory before the run
    pc,         \* the position of the run in main / parse / extract
    data,       \* parse: the bytes read from the file (line 97)
    pos,        \* parse: the position of the BytesIO stream during sequential reads
    header,     \* parse: the unpacked header fields (lines 100-102)
    entries,    \* PUP.entries
    pidx,       \* parse: index of the next entry of the payload loop (line 109)
    widx,       \* extract: index of the next entry of the write loop (line 115)
    fs,         \* the filesystem at Path('sys_modules')
    out,        \* the lines printed on standard output
    err,        \* the exception in flight or handled, with the place that raised it
    exit_code   \* the exit status, -1 while the script runs

vars == <<input, pc, data, pos, header, entries, pidx, widx, fs, out, err, exit_code>>

-----------------------------------------------------------------------------
(* Bounds of the model.                                                    *)

\* the largest entries_count of a generated container
MaxEntries == 2

-----------------------------------------------------------------------------
(* Bytes and integers.  A Python int is unbounded; the model keeps a       *)
(* 64-bit field as four 16-bit limbs, least significant first, so that     *)
(* every value of the field is representable.                              *)

Min(a, b) == IF a < b THEN a ELSE b

RECURSIVE SumSeq(_)
SumSeq(s) == IF s = <<>> THEN 0 ELSE Head(s) + SumSeq(Tail(s))

\* the value of a little-endian byte string of at most 4 bytes (B, H, I fields)
RECURSIVE LE(_)
LE(bs) == IF bs = <<>> THEN 0 ELSE Head(bs) + 256 * LE(Tail(bs))

\* the n-byte little-endian encoding of v
RECURSIVE PackLE(_, _)
PackLE(v, n) == IF n = 0 THEN <<>> ELSE <<v % 256>> \o PackLE(v \div 256, n - 1)

\* a Q field: 8 little-endian bytes as four 16-bit limbs
Limbs(bs) == [k \in 1..4 |-> bs[2 * k - 1] + 256 * bs[2 * k]]

\* the 8-byte little-endian encoding of four limbs
PackLimbs(q) == PackLE(q[1], 2) \o PackLE(q[2], 2) \o PackLE(q[3], 2) \o PackLE(q[4], 2)

\* q fits a C ssize_t (q < 2^63)
FitsSsize(q) == q[4] < 32768

\* q < 2^31: its value is an integer of the model
Small(q) == q[3] = 0 /\ q[4] = 0 /\ q[2] < 32768

Val(q) == q[1] + 65536 * q[2]

\* q >> 20
Shr20(q) == (q[2] \div 16) + 4096 * q[3] + 268435456 * q[4]

\* q & 0x8
And8(q) == ((q[1] \div 8) % 2) * 8

-----------------------------------------------------------------------------
(* struct: the two record layouts.                                         *)

\* "<IBBBBBBHHHIIHHI": the byte width of each field, no padding ('<')
PUP_HEADER_FORMAT == <<4, 1, 1, 1, 1, 1, 1, 2, 2, 2, 4, 4, 2, 2, 4>>

\* "<QQQQ"
PUP_ENTRY_FORMAT == <<8, 8, 8, 8>>

calcsize(fmt) == SumSeq(fmt)

\* struct.calcsize of the two layouts
HEADER_SIZE == calcsize(PUP_HEADER_FORMAT)
ENTRY_SIZE == calcsize(PUP_ENTRY_FORMAT)

\* the offset of each field of a layout
Offsets(fmt) == [k \in 1..Len(fmt) |-> SumSeq(SubSeq(fmt, 1, k - 1))]
HeaderOffsets == Offsets(PUP_HEADER_FORMAT)
EntryOffsets == Offsets(PUP_ENTRY_FORMAT)

\* the bytes of the field of width w at offset o
FieldBytes(bs, o, w) == SubSeq(bs, o + 1, o + w)

\* struct.unpack raises struct.error unless the buffer has exactly calcsize bytes
UnpackFails(size, bs) == Len(bs) # size

\* struct.unpack(PUP_HEADER_FORMAT, header): the tuple (magic, version, mode,
\* endian, flags, content, product, padding, header_size, hash_size, file_size,
\* padding2, entries_count, flags2, unk1C)
UnpackHeader(bs) ==
    [k \in 1..Len(PUP_HEADER_FORMAT) |->
        LE(FieldBytes(bs, HeaderOffsets[k], PUP_HEADER_FORMAT[k]))]

\* the names the tuple is unpacked to (lines 100-102) that the code reads
magic(h) == h[1]
entries_count(h) == h[13]

\* NewEntry with offset and file_size taken from each other's field
MutNewEntrySwapped(bs) ==
    LET f(k) == Limbs(FieldBytes(bs, EntryOffsets[k], PUP_ENTRY_FORMAT[k]))
    IN  [flags |-> f(1), offset |-> f(3), file_size |-> f(2),
         memory_size |-> f(4), data |-> <<>>]

\* PUPEntry(*struct.unpack(PUP_ENTRY_FORMAT, entry_data))
NewEntry(bs) ==
    LET f(k) == Limbs(FieldBytes(bs, EntryOffsets[k], PUP_ENTRY_FORMAT[k]))
    IN  [flags |-> f(1), offset |-> f(2), file_size |-> f(3),
         memory_size |-> f(4), data |-> <<>>]

PUP_MAGIC == 490542415   \* 0x1D3D154F

-----------------------------------------------------------------------------
(* zlib.  decompressobj().decompress(data) + flush() on a zlib stream      *)
(* (RFC 1950) whose deflate blocks are stored blocks (RFC 1951, BTYPE 00): *)
(* the 2-byte header is checked, each block is LEN, NLEN = ~LEN and LEN    *)
(* bytes, and the stream ends with the big-endian Adler-32 of the output.  *)
(* A decompression object does not raise on a stream that stops early, it  *)
(* returns what was inflated so far, and it ignores bytes after the end of *)
(* the stream.  Huffman-coded blocks (BTYPE 01, 10) are outside the model: *)
(* Inflate reports them as "huffman" and no generated input holds one.     *)

RECURSIVE AdlerA(_, _)
AdlerA(bs, k) == IF k = 0 THEN 1 ELSE (AdlerA(bs, k - 1) + bs[k]) % 65521

RECURSIVE AdlerB(_, _)
AdlerB(bs, k) == IF k = 0 THEN 0 ELSE (AdlerB(bs, k - 1) + AdlerA(bs, k)) % 65521

\* the 4 bytes of adler32(bs), most significant first
Adler32(bs) ==
    LET a == AdlerA(bs, Len(bs))
        b == AdlerB(bs, Len(bs))
    IN  <<b \div 256, b % 256, a \div 256, a % 256>>

ZOk(o) == [res |-> "ok", out |-> o]
ZError == [res |-> "error", out |-> <<>>]
ZHuffman == [res |-> "huffman", out |-> <<>>]

\* the trailer of the stream starts at byte p
InflateTrailer(bs, p, o) ==
    IF Len(bs) - p + 1 < 4 THEN ZOk(o)
    ELSE IF SubSeq(bs, p, p + 3) = Adler32(o) THEN ZOk(o) ELSE ZError

\* a block header is expected at byte p; o is the output so far
RECURSIVE InflateBlocks(_, _, _)
InflateBlocks(bs, p, o) ==
    IF p > Len(bs) THEN ZOk(o)
    ELSE LET bfinal == bs[p] % 2
             btype == (bs[p] \div 2) % 4
         IN  IF btype = 3 THEN ZError
             ELSE IF btype # 0 THEN ZHuffman
             ELSE IF Len(bs) - p < 4 THEN ZOk(o)
             ELSE LET len == bs[p + 1] + 256 * bs[p + 2]
                      nlen == bs[p + 3] + 256 * bs[p + 4]
                      avail == Len(bs) - (p + 4)
                  IN  IF len + nlen # 65535 THEN ZError
                      ELSE IF avail < len THEN ZOk(o \o SubSeq(bs, p + 5, Len(bs)))
                      ELSE IF bfinal = 1
                           THEN InflateTrailer(bs, p + 5 + len,
                                               o \o SubSeq(bs, p + 5, p + 4 + len))
                           ELSE InflateBlocks(bs, p + 5 + len,
                                              o \o SubSeq(bs, p + 5, p + 4 + len))

Inflate(bs) ==
    IF Len(bs) < 2 THEN ZOk(<<>>)
    ELSE LET cmf == bs[1]
             flg == bs[2]
         IN  IF (256 * cmf + flg) % 31 # 0 THEN ZError
             ELSE IF cmf % 16 # 8 THEN ZError
             ELSE IF cmf \div 16 > 7 THEN ZError
             ELSE IF (flg \div 32) % 2 = 1
                  THEN IF Len(bs) < 6 THEN ZOk(<<>>) ELSE ZError
             ELSE InflateBlocks(bs, 3, <<>>)

\* zlib.compress(bs, 0): one final stored block
Deflate0(bs) ==
    <<120, 1, 1>> \o PackLE(Len(bs), 2) \o PackLE(65535 - Len(bs), 2)
        \o bs \o Adler32(bs)

-----------------------------------------------------------------------------
(* PUPEntry.                                                               *)

\* FILES: identifier -> file name
FILES ==
    [k \in {1, 2, 3, 4, 5, 6, 7, 8, 9, 11, 12, 13, 14,
            32, 33, 34, 35, 36, 37, 38, 39, 40, 42, 43, 44, 45, 46,
            48, 49, 50, 257, 512, 514, 3329, 3330, 3337} |->
        CASE k \in {1, 13, 32, 36, 40, 42, 44, 46} -> "emc_ipl.slb"
          [] k \in {2, 14, 33, 37, 43} -> "eap_kbl.slb"
          [] k \in {3, 34} -> "torus2_fw.slb"
          [] k \in {4, 35, 38, 39, 45, 49, 50} -> "sam_ipl.slb"
          [] k = 5 -> "coreos.slb"
          [] k = 6 -> "system_exfat.img"
          [] k = 7 -> "eap_kernel.slb"
          [] k = 8 -> "eap_vsh_fat16.img"
          [] k = 9 -> "preinst_fat32.img"
          [] k = 11 -> "preinst2_fat32.img"
          [] k = 12 -> "system_ex_exfat.img"
          [] k = 48 -> "torus2_fw.bin"
          [] k = 257 -> "eula.xml"
          [] k = 512 -> "orbis_swu.elf"
          [] k = 514 -> "orbis_swu.self"
          [] k = 3329 -> "bd_firm.slb"
          [] k = 3330 -> "sata_bridge_fw.slb"
          [] k = 3337 -> "cp_fw_kernel.slb"]

HexDigit(d) ==
    <<"0", "1", "2", "3", "4", "5", "6", "7",
      "8", "9", "A", "B", "C", "D", "E", "F">>[d + 1]

\* the uppercase hexadecimal digits of v, most significant first, "" for 0
RECURSIVE HexDigits(_)
HexDigits(v) == IF v = 0 THEN "" ELSE HexDigits(v \div 16) \o HexDigit(v % 16)

RECURSIVE ZeroPad(_, _, _)
ZeroPad(s, have, width) == IF have >= width THEN s ELSE ZeroPad("0" \o s, have + 1, width)

RECURSIVE HexLen(_)
HexLen(v) == IF v = 0 THEN 0 ELSE 1 + HexLen(v \div 16)

\* Format04X without the zero padding: f"{v:X}"
MutFormatX(v) == IF v = 0 THEN "0" ELSE HexDigits(v)

\* f"{v:04X}"
Format04X(v) == ZeroPad(HexDigits(v), HexLen(v), 4)

\* PUPEntry.file_name
file_name(e) ==
    LET id == Shr20(e.flags)
    IN  IF id \in DOMAIN FILES THEN FILES[id] ELSE "unknown_" \o Format04X(id)

\* PUPEntry.compressed
compressed(e) == And8(e.flags) # 0

\* process_bytes that leaves the inflation to a later stage
MutProcessBytesRaw(e, bs) == [res |-> "ok", entry |-> [e EXCEPT !.data = bs]]

\* PUPEntry.process_bytes: the entry with its data, or the zlib error
process_bytes(e, bs) ==
    IF compressed(e)
    THEN LET z == Inflate(bs)
         IN  [res |-> z.res, entry |-> [e EXCEPT !.data = z.out]]
    ELSE [res |-> "ok", entry |-> [e EXCEPT !.data = bs]]

-----------------------------------------------------------------------------
(* io.BytesIO.                                                             *)

\* stream.read(n) at position p, n an integer of the model
StreamRead(buf, p, n) == SubSeq(buf, p + 1, Min(p + n, Len(buf)))

\* stream.seek(offset) or stream.read(file_size) raises OverflowError
SeekReadOverflows(offset, size) == ~FitsSsize(offset) \/ ~FitsSsize(size)

\* stream.seek(offset); stream.read(size), offset and size 64-bit fields:
\* the bytes of the buffer from offset on, at most size of them
SeekRead(buf, offset, size) ==
    IF ~Small(offset) \/ Val(offset) >= Len(buf) THEN <<>>
    ELSE IF ~Small(size) \/ Val(size) > Len(buf) - Val(offset)
         THEN SubSeq(buf, Val(offset) + 1, Len(buf))
         ELSE SubSeq(buf, Val(offset) + 1, Val(offset) + Val(size))

-----------------------------------------------------------------------------
(* pathlib: the directory Path('sys_modules') of the working directory.    *)
(* kind is "absent", "file" (a regular file has that name) or "dir";       *)
(* files maps each name in the directory to its content.                   *)

RegularFile(bs) == [isdir |-> FALSE, bytes |-> bs]
SubDirectory == [isdir |-> TRUE, bytes |-> <<>>]

\* out_dir.mkdir(parents=True, exist_ok=True) raises FileExistsError
MkdirFails(f) == f.kind = "file"

mkdir(f) == IF f.kind = "dir" THEN f ELSE [kind |-> "dir", files |-> <<>>]

\* out_path.open('wb') raises IsADirectoryError
OpenFails(f, name) == name \in DOMAIN f.files /\ f.files[name].isdir

\* WriteFile that keeps a file that exists (mode 'xb' with the error ignored)
MutWriteFileKeep(f, name, bs) ==
    [f EXCEPT !.files = [n \in DOMAIN f.files \cup {name} |->
                            IF n \in DOMAIN f.files THEN f.files[n]
                            ELSE RegularFile(bs)]]

\* with out_path.open('wb') as f: f.write(bs)
WriteFile(f, name, bs) ==
    [f EXCEPT !.files = [n \in DOMAIN f.files \cup {name} |->
                            IF n = name THEN RegularFile(bs) ELSE f.files[n]]]

-----------------------------------------------------------------------------
(* The inputs of a run.  A PUP file is built from a header, a sequence of  *)
(* entry descriptors and a payload region, encoded with the layouts above  *)
(* and then cut to a length; the run reads the encoded bytes only.         *)

\* the payload region: 4 raw bytes DE AD BE EF, then zlib.compress(b"hi", 0)
Plain == <<104, 105>>
RawBytes == <<222, 173, 190, 239>>
PayloadRegion == RawBytes \o Deflate0(Plain)

\* The entry descriptors of the generated containers.  off is relative to the
\* start of the payload region when rel, absolute otherwise.
EntryKinds ==
    { \* identifier 0x5, uncompressed, the 4 raw bytes
      [kind |-> "raw", id |-> 5, low |-> 0, rel |-> TRUE,
       off |-> <<0, 0, 0, 0>>, size |-> <<4, 0, 0, 0>>, msize |-> <<4, 0, 0, 0>>],
      \* identifier 0x5, compressed, the whole zlib stream
      [kind |-> "zlib", id |-> 5, low |-> 8, rel |-> TRUE,
       off |-> <<4, 0, 0, 0>>, size |-> <<13, 0, 0, 0>>, msize |-> <<2, 0, 0, 0>>],
      \* identifier 0xFFF, not in FILES, uncompressed, every low bit but 0x8 set
      [kind |-> "unknown", id |-> 4095, low |-> 1048567, rel |-> TRUE,
       off |-> <<2, 0, 0, 0>>, size |-> <<2, 0, 0, 0>>, msize |-> <<0, 0, 0, 0>>],
      \* identifier 0x1, compressed, every low bit set
      [kind |-> "zlib_allbits", id |-> 1, low |-> 1048575, rel |-> TRUE,
       off |-> <<4, 0, 0, 0>>, size |-> <<13, 0, 0, 0>>,
       msize |-> <<65535, 65535, 65535, 65535>>],
      \* identifier 0xD, the same name as 0x1, its payload the 4 magic bytes
      [kind |-> "alias", id |-> 13, low |-> 0, rel |-> FALSE,
       off |-> <<0, 0, 0, 0>>, size |-> <<4, 0, 0, 0>>, msize |-> <<4, 0, 0, 0>>],
      \* compressed, but the payload is no zlib stream
      [kind |-> "corrupt", id |-> 2, low |-> 8, rel |-> TRUE,
       off |-> <<0, 0, 0, 0>>, size |-> <<4, 0, 0, 0>>, msize |-> <<4, 0, 0, 0>>],
      \* identifier 0xA, not in FILES; offset inside the file, offset + file_size
      \* 4 bytes beyond its end
      [kind |-> "beyond", id |-> 10, low |-> 0, rel |-> TRUE,
       off |-> <<13, 0, 0, 0>>, size |-> <<8, 0, 0, 0>>, msize |-> <<8, 0, 0, 0>>],
      \* identifier 0x12345, not in FILES; offset 2^63
      [kind |-> "huge", id |-> 74565, low |-> 0, rel |-> FALSE,
       off |-> <<0, 0, 0, 32768>>, size |-> <<4, 0, 0, 0>>, msize |-> <<4, 0, 0, 0>>] }

\* the sequences over S of length at most n
SeqsUpTo(S, n) == UNION {[1..k -> S] : k \in 0..n}

Containers == SeqsUpTo(EntryKinds, MaxEntries)

\* magic values that are not the constant: one bit off, and the bytes reversed
BadMagics == {490542414, 1326791965}

\* the header fields other than magic and entries_count: all zero, or none zero
OtherFields(hv) ==
    IF hv = 0 THEN [k \in 1..15 |-> 0]
    ELSE <<0, 1, 2, 1, 255, 3, 4, 65535, 32, 64, 2147483647, 1, 0, 65535, 7>>

PackHeader(m, hv, n) ==
    LET h == [OtherFields(hv) EXCEPT ![1] = m, ![13] = n]
        RECURSIVE pack(_)
        pack(k) == IF k > Len(PUP_HEADER_FORMAT) THEN <<>>
                   ELSE PackLE(h[k], PUP_HEADER_FORMAT[k]) \o pack(k + 1)
    IN  pack(1)

\* flags = id << 20 | low
FlagsBytes(id, low) ==
    PackLE(low % 65536, 2) \o <<(low \div 65536) + 16 * (id % 16)>>
        \o PackLE(id \div 16, 5)

\* the absolute offset of an entry of a container with n entries
OffsetOf(t, n) ==
    IF t.rel
    THEN [t.off EXCEPT ![1] = @ + HEADER_SIZE
                                + n * ENTRY_SIZE]
    ELSE t.off

PackEntry(t, n) ==
    FlagsBytes(t.id, t.low) \o PackLimbs(OffsetOf(t, n)) \o PackLimbs(t.size)
        \o PackLimbs(t.msize)

RECURSIVE PackTable(_, _, _)
PackTable(ts, k, n) ==
    IF k > Len(ts) THEN <<>> ELSE PackEntry(ts[k], n) \o PackTable(ts, k + 1, n)

BuildFile(m, hv, ts) ==
    PackHeader(m, hv, Len(ts)) \o PackTable(ts, 1, Len(ts)) \o PayloadRegion

\* the lengths a file of a container is cut to
CutLengths(ts) ==
    LET hs == HEADER_SIZE
        es == ENTRY_SIZE
        n == Len(ts)
    IN  {0, 3, hs - 1, hs + n * es}
          \cup (IF n >= 1 THEN {hs + n * es - 1, hs + (n - 1) * es, hs + es \div 2}
                ELSE {})

\* the directory before the run
OldBytes == <<79, 76, 68>>
FsAbsent == [kind |-> "absent", files |-> <<>>]
FsEmptyDir == [kind |-> "dir", files |-> <<>>]
FsIsFile == [kind |-> "file", files |-> <<>>]
FsWithFiles ==
    [kind |-> "dir",
     files |-> [n \in {"coreos.slb", "stale.bin"} |-> RegularFile(OldBytes)]]
FsBlocked ==
    [kind |-> "dir", files |-> [n \in {"emc_ipl.slb"} |-> SubDirectory]]

MkInput(argc, path, m, hv, ts, cut, f) ==
    [argc |-> argc, path |-> path, magic |-> m, hv |-> hv, kinds |-> ts,
     file |-> SubSeq(BuildFile(m, hv, ts), 1, cut), fs0 |-> f]

FullLen(ts) ==
    HEADER_SIZE + Len(ts) * ENTRY_SIZE
        + Len(PayloadRegion)

\* wrong argument counts; a path that does not exist or is a directory
DriverInput(i) ==
    \/ \E argc \in {1, 3}, f \in {FsAbsent, FsWithFiles} :
          i = MkInput(argc, "file", PUP_MAGIC, 0, <<>>, FullLen(<<>>), f)
    \/ \E path \in {"missing", "dir"}, f \in {FsAbsent, FsWithFiles} :
          i = MkInput(2, path, PUP_MAGIC, 0, <<>>, FullLen(<<>>), f)

\* whole files with the magic constant
ValidInput(i) ==
    \E ts \in Containers, hv \in {0, 1},
       f \in {FsAbsent, FsEmptyDir, FsIsFile, FsWithFiles, FsBlocked} :
        i = MkInput(2, "file", PUP_MAGIC, hv, ts, FullLen(ts), f)

\* whole files with another magic
BadMagicInput(i) ==
    \E ts \in Containers, m \in BadMagics, hv \in {0, 1} :
        i = MkInput(2, "file", m, hv, ts, FullLen(ts), FsWithFiles)

\* files cut short, with and without the magic constant
CutInput(i) ==
    \E ts \in Containers, m \in {PUP_MAGIC} \cup BadMagics :
        \E cut \in CutLengths(ts) :
            i = MkInput(2, "file", m, 1, ts, cut, FsWithFiles)

IsInput(i) == DriverInput(i) \/ ValidInput(i) \/ BadMagicInput(i) \/ CutInput(i)

-----------------------------------------------------------------------------
(* The run.                                                                *)

NoError == [type |-> "none", at |-> "none"]

Raise(type, at) ==
    /\ err' = [type |-> type, at |-> at]
    /\ pc' = "except"

Init ==
    /\ IsInput(input)
    /\ pc = "main"
    /\ data = <<>>
    /\ pos = 0
    /\ header = <<>>
    /\ entries = <<>>
    /\ pidx = 1
    /\ widx = 1
    /\ fs = input.fs0
    /\ out = <<>>
    /\ err = NoError
    /\ exit_code = -1

\* main, lines 124-126: a wrong argument count
Usage ==
    /\ pc = "main"
    /\ input.argc # 2
    /\ out' = Append(out, "usage")
    /\ exit_code' = 1
    /\ pc' = "exit"
    /\ UNCHANGED <<input, data, pos, header, entries, pidx, widx, fs, err>>

\* main, lines 128-131: pup_path.exists()
CheckExists ==
    /\ pc = "main"
    /\ input.argc = 2
    /\ IF input.path = "missing"
       THEN /\ out' = Append(out, "not found")
            /\ exit_code' = 1
            /\ pc' = "exit"
       ELSE /\ pc' = "open"
            /\ UNCHANGED <<out, exit_code>>
    /\ UNCHANGED <<input, data, pos, header, entries, pidx, widx, fs, err>>

\* ParseOpen of a script that creates the output directory before it parses
MutParseOpenMkdir ==
    /\ pc = "open"
    /\ IF input.path = "dir"
       THEN /\ Raise("IsADirectoryError", "open")
            /\ UNCHANGED <<data, pos, fs>>
       ELSE /\ data' = input.file
            /\ pos' = 0
            /\ pc' = "header"
            /\ fs' = IF MkdirFails(fs) THEN fs ELSE mkdir(fs)
            /\ UNCHANGED err
    /\ UNCHANGED <<input, header, entries, pidx, widx, out, exit_code>>

\* parse, lines 96-98: read the file into a stream
ParseOpen ==
    /\ pc = "open"
    /\ IF input.path = "dir"
       THEN /\ Raise("IsADirectoryError", "open")
            /\ UNCHANGED <<data, pos>>
       ELSE /\ data' = input.file
            /\ pos' = 0
            /\ pc' = "header"
            /\ UNCHANGED err
    /\ UNCHANGED <<input, header, entries, pidx, widx, fs, out, exit_code>>

\* ParseHeader without the magic check
MutParseHeaderNoMagic ==
    /\ pc = "header"
    /\ LET bs == StreamRead(data, pos, HEADER_SIZE)
       IN  /\ pos' = pos + Len(bs)
           /\ IF UnpackFails(HEADER_SIZE, bs)
              THEN /\ Raise("struct.error", "header")
                   /\ UNCHANGED header
              ELSE /\ header' = UnpackHeader(bs)
                   /\ pc' = "entries"
                   /\ UNCHANGED err
    /\ UNCHANGED <<input, data, entries, pidx, widx, fs, out, exit_code>>

\* ParseHeader that checks the magic on the first 4 bytes before it unpacks
MutParseHeaderMagicFirst ==
    /\ pc = "header"
    /\ LET bs == StreamRead(data, pos, HEADER_SIZE)
       IN  /\ pos' = pos + Len(bs)
           /\ IF Len(bs) >= 4 /\ LE(SubSeq(bs, 1, 4)) # PUP_MAGIC
              THEN /\ Raise("RuntimeError", "magic")
                   /\ UNCHANGED header
              ELSE IF UnpackFails(HEADER_SIZE, bs)
              THEN /\ Raise("struct.error", "header")
                   /\ UNCHANGED header
              ELSE /\ header' = UnpackHeader(bs)
                   /\ pc' = "entries"
                   /\ UNCHANGED err
    /\ UNCHANGED <<input, data, entries, pidx, widx, fs, out, exit_code>>

\* parse, lines 99-104: read and unpack the header, check the magic
ParseHeader ==
    /\ pc = "header"
    /\ LET bs == StreamRead(data, pos, HEADER_SIZE)
       IN  /\ pos' = pos + Len(bs)
           /\ IF UnpackFails(HEADER_SIZE, bs)
              THEN /\ Raise("struct.error", "header")
                   /\ UNCHANGED header
              ELSE LET h == UnpackHeader(bs)
                   IN  /\ header' = h
                       /\ IF magic(h) # PUP_MAGIC
                          THEN Raise("RuntimeError", "magic")
                          ELSE pc' = "entries" /\ UNCHANGED err
    /\ UNCHANGED <<input, data, entries, pidx, widx, fs, out, exit_code>>

\* parse, lines 105-108: one iteration of the entry table loop
ParseEntry ==
    /\ pc = "entries"
    /\ Len(entries) < entries_count(header)
    /\ LET bs == StreamRead(data, pos, ENTRY_SIZE)
       IN  /\ pos' = pos + Len(bs)
           /\ IF UnpackFails(ENTRY_SIZE, bs)
              THEN /\ Raise("struct.error", "entry")
                   /\ UNCHANGED entries
              ELSE /\ entries' = Append(entries, NewEntry(bs))
                   /\ UNCHANGED <<pc, err>>
    /\ UNCHANGED <<input, data, header, pidx, widx, fs, out, exit_code>>

\* parse, line 105 to line 109: the entry table loop ends
ParseEntriesDone ==
    /\ pc = "entries"
    /\ Len(entries) >= entries_count(header)
    /\ pc' = "payload"
    /\ pidx' = 1
    /\ UNCHANGED <<input, data, pos, header, entries, widx, fs, out, err, exit_code>>

\* parse, lines 109-111: one iteration of the payload loop.  Each iteration
\* seeks to an absolute offset, so the position the read leaves is never used.
ParsePayload ==
    /\ pc = "payload"
    /\ pidx <= Len(entries)
    /\ LET e == entries[pidx]
       IN  IF SeekReadOverflows(e.offset, e.file_size)
           THEN /\ Raise("OverflowError", "seek")
                /\ UNCHANGED <<entries, pidx>>
           ELSE LET r == process_bytes(e, SeekRead(data, e.offset, e.file_size))
                IN  /\ r.res # "huffman"
                    /\ IF r.res = "error"
                       THEN /\ Raise("zlib.error", "inflate")
                            /\ UNCHANGED <<entries, pidx>>
                       ELSE /\ entries' = [entries EXCEPT ![pidx] = r.entry]
                            /\ pidx' = pidx + 1
                            /\ UNCHANGED <<pc, err>>
    /\ UNCHANGED <<input, data, pos, header, widx, fs, out, exit_code>>

\* parse returns, line 137
ParseDone ==
    /\ pc = "payload"
    /\ pidx > Len(entries)
    /\ pc' = "mkdir"
    /\ UNCHANGED <<input, data, pos, header, entries, pidx, widx, fs, out, err, exit_code>>

\* extract, line 114
ExtractMkdir ==
    /\ pc = "mkdir"
    /\ IF MkdirFails(fs)
       THEN /\ Raise("FileExistsError", "mkdir")
            /\ UNCHANGED <<fs, widx>>
       ELSE /\ fs' = mkdir(fs)
            /\ widx' = 1
            /\ pc' = "write"
            /\ UNCHANGED err
    /\ UNCHANGED <<input, data, pos, header, entries, pidx, out, exit_code>>

\* extract, lines 115-120: one iteration of the write loop
ExtractWrite ==
    /\ pc = "write"
    /\ widx <= Len(entries)
    /\ LET e == entries[widx]
       IN  IF file_name(e) = ""
           THEN /\ widx' = widx + 1
                /\ UNCHANGED <<fs, pc, err>>
           ELSE IF OpenFails(fs, file_name(e))
           THEN /\ Raise("IsADirectoryError", "write")
                /\ UNCHANGED <<fs, widx>>
           ELSE /\ fs' = WriteFile(fs, file_name(e), e.data)
                /\ widx' = widx + 1
                /\ UNCHANGED <<pc, err>>
    /\ UNCHANGED <<input, data, pos, header, entries, pidx, out, exit_code>>

\* extract returns, line 138: the success message; main returns, exit status 0
ExtractDone ==
    /\ pc = "write"
    /\ widx > Len(entries)
    /\ out' = Append(out, "extracted")
    /\ exit_code' = 0
    /\ pc' = "exit"
    /\ UNCHANGED <<input, data, pos, header, entries, pidx, widx, fs, err>>

\* Except without sys.exit(1): main returns after the message
MutExceptReturns ==
    /\ pc = "except"
    /\ out' = Append(out, "failed")
    /\ exit_code' = 0
    /\ pc' = "exit"
    /\ UNCHANGED <<input, data, pos, header, entries, pidx, widx, fs, err>>

\* main, lines 139-141: the handler of every Exception raised in the try block
Except ==
    /\ pc = "except"
    /\ out' = Append(out, "failed")
    /\ exit_code' = 1
    /\ pc' = "exit"
    /\ UNCHANGED <<input, data, pos, header, entries, pidx, widx, fs, err>>

Next ==
    \/ Usage
    \/ CheckExists
    \/ ParseOpen
    \/ ParseHeader
    \/ ParseEntry
    \/ ParseEntriesDone
    \/ ParsePayload
    \/ ParseDone
    \/ ExtractMkdir
    \/ ExtractWrite
    \/ ExtractDone
    \/ Except

Spec == Init /\ [][Next]_vars

-----------------------------------------------------------------------------
(* The vocabulary of the claims.  The error outcomes are the exceptions of *)
(* the code, named by the place that raises them.                          *)

N == Len(input.kinds)

\* the first byte after the entry table of the generated container
TableEnd == HEADER_SIZE + N * ENTRY_SIZE

\* the run reaches parse and parse reads the file
ParseRan == input.argc = 2 /\ input.path = "file"

HeaderTooShort == err = [type |-> "struct.error", at |-> "header"]
InvalidMagic == err = [type |-> "RuntimeError", at |-> "magic"]
TruncatedEntryTable == err = [type |-> "struct.error", at |-> "entry"]
DecompressionError == err = [type |-> "zlib.error", at |-> "inflate"]
\* the only failure of the code when it slices a payload: seek or read overflows
TruncatedPayload == err = [type |-> "OverflowError", at |-> "seek"]

ParseSites == {"open", "header", "magic", "entry", "seek", "inflate"}
ExtractSites == {"mkdir", "write"}

\* parse has returned without an exception
ParseSucceeded ==
    \/ pc \in {"mkdir", "write"}
    \/ pc \in {"except", "exit"} /\ err.at \in ExtractSites
    \/ pc = "exit" /\ exit_code = 0

\* offset + file_size of a generated entry lies beyond the end of the file
OutOfBounds(t) ==
    LET off == OffsetOf(t, N)
    IN  \/ ~Small(off)
        \/ ~Small(t.size)
        \/ Val(off) + Val(t.size) > Len(input.file)

\* the flags of a generated entry, as limbs: id << 20 | low
FlagsOf(t) ==
    <<t.low % 65536, (t.low \div 65536) + 16 * (t.id % 4096), t.id \div 4096, 0>>

\* the file names of the generated entries, by identifier
NameOf(id) ==
    CASE id = 5 -> "coreos.slb"
      [] id = 1 -> "emc_ipl.slb"
      [] id = 13 -> "emc_ipl.slb"
      [] id = 2 -> "eap_kbl.slb"
      [] id = 4095 -> "unknown_0FFF"
      [] id = 10 -> "unknown_000A"
      [] id = 74565 -> "unknown_12345"

Names == {NameOf(input.kinds[k].id) : k \in 1..N}

\* the last entry of the table with a name
LastNamed(name) ==
    CHOOSE k \in 1..N :
        /\ NameOf(input.kinds[k].id) = name
        /\ \A j \in (k + 1)..N : NameOf(input.kinds[j].id) # name

\* C1: a valid magic, a complete entry table and an entry with offset +
\* file_size beyond the end of the buffer: parse never completes, it ends in
\* TruncatedPayload, and no entry carries a payload shorter than file_size.
C1_TruncatedPayload ==
    (/\ ParseRan
     /\ input.magic = PUP_MAGIC
     /\ Len(input.file) >= TableEnd
     /\ \E k \in 1..N : OutOfBounds(input.kinds[k]))
    => /\ ~ParseSucceeded
       /\ pc = "exit" => TruncatedPayload
       /\ \A k \in 1..Len(entries) :
            k < pidx /\ ~compressed(entries[k])
                => Small(entries[k].file_size)
                   /\ Len(entries[k].data) = Val(entries[k].file_size)

\* C2: a buffer of at least 32 bytes whose magic is not 0x1D3D154F ends in
\* InvalidMagic whatever the other fields and the remaining bytes are; no
\* entry descriptor is decoded and the entry list stays empty.
C2_InvalidMagic ==
    (ParseRan /\ Len(input.file) >= 32 /\ input.magic # PUP_MAGIC)
    => /\ entries = <<>>
       /\ pc \in {"main", "open", "header", "except", "exit"}
       /\ pc \in {"except", "exit"} => InvalidMagic
       /\ pc = "exit" => exit_code = 1

C2_Witness ==
    /\ pc = "exit"
    /\ InvalidMagic
    /\ input.magic = 1326791965
    /\ input.hv = 1
    /\ N = MaxEntries
    /\ Len(input.file) > TableEnd

\* C3 as stated: after a successful parse and extract the files of the output
\* directory are exactly the resolved names of the entries, each holding the
\* processed payload of the last entry of that name.
C3_ExactlyTheEntries ==
    (pc = "exit" /\ exit_code = 0)
    => /\ {n \in DOMAIN fs.files : ~fs.files[n].isdir} = Names
       /\ \A name \in Names :
            fs.files[name] = RegularFile(entries[LastNamed(name)].data)

\* C3 amended: after a successful parse and extract the files of the output
\* directory are the files it held before the run together with the resolved
\* names of the entries; each resolved name holds the processed payload of the
\* last entry of that name, and every other file is as it was.
C3_LastEntryWins ==
    (pc = "exit" /\ exit_code = 0)
    => /\ fs.kind = "dir"
       /\ DOMAIN fs.files = DOMAIN input.fs0.files \cup Names
       /\ \A name \in Names :
            fs.files[name] = RegularFile(entries[LastNamed(name)].data)
       /\ \A name \in DOMAIN input.fs0.files \ Names :
            fs.files[name] = input.fs0.files[name]

\* two entries of different identifiers and different payloads share a name
C3_Witness ==
    /\ pc = "exit"
    /\ exit_code = 0
    /\ N = 2
    /\ input.kinds[1].id = 1
    /\ input.kinds[2].id = 13
    /\ entries[1].data # entries[2].data
    /\ fs.files["emc_ipl.slb"].bytes = entries[2].data

C5_ExactSlice ==
    ParseSucceeded
    => \A k \in 1..Len(entries) :
         LET t == input.kinds[k]
             off == OffsetOf(t, N)
         IN  /\ ~OutOfBounds(t)
             /\ ~OutOfBounds(t) =>
                  LET slice == SubSeq(input.file, Val(off) + 1, Val(off) + Val(t.size))
                  IN  /\ (t.low \div 8) % 2 = 0 => entries[k].data = slice
                      /\ (t.low \div 8) % 2 = 1 /\ slice = Deflate0(Plain)
                            => entries[k].data = Plain

\* the processing of a generated entry raises: the offset does not fit a
\* ssize_t, or the compressed payload is no zlib stream (its first two bytes
\* are in the file)
SeekFails(t) == t.kind = "huge"
InflateFails(t) == t.kind = "corrupt" /\ Len(input.file) >= TableEnd + 2

C7_ParseLeavesFs ==
    /\ (\/ pc \in {"main", "open", "header", "entries", "payload", "mkdir"}
        \/ pc \in {"except", "exit"} /\ err.at \in ParseSites)
       => fs = input.fs0
    /\ fs # input.fs0 =>
         /\ ParseSucceeded
         /\ Len(entries) = N
         /\ pidx = N + 1

\* a bad payload after a processed one, the directory still absent
C7_Witness ==
    /\ pc = "exit"
    /\ TruncatedPayload
    /\ pidx = 2
    /\ entries[1].data # <<>>
    /\ fs.kind = "absent"

\* C8: a buffer shorter than 32 bytes ends in HeaderTooShort whatever its
\* bytes are; the magic check is never the reported failure and no entry is
\* decoded.
C8_HeaderTooShort ==
    (ParseRan /\ Len(input.file) < 32)
    => /\ entries = <<>>
       /\ pc \in {"main", "open", "header", "except", "exit"}
       /\ pc \in {"except", "exit"} => HeaderTooShort
       /\ pc = "exit" => exit_code = 1

\* 31 bytes that do not start with the magic constant
C8_Witness ==
    /\ pc = "exit"
    /\ HeaderTooShort
    /\ Len(input.file) = 31
    /\ input.magic # PUP_MAGIC

\* C9: with a valid header and fewer than entries_count * 32 bytes after it,
\* parse ends in TruncatedEntryTable before any payload is sliced or
\* decompressed; when parse succeeds the entry list has entries_count entries
\* in table order, entry i holding the four little-endian 64-bit fields of
\* bytes [32 + 32 i, 32 + 32 (i + 1)).
C9_EntryTable ==
    /\ (/\ ParseRan
        /\ input.magic = PUP_MAGIC
        /\ Len(input.file) >= 32
        /\ Len(input.file) - 32 < 32 * N)
       => /\ pc \notin {"payload", "mkdir", "write"}
          /\ pidx = 1
          /\ \A k \in 1..Len(entries) : entries[k].data = <<>>
          /\ pc \in {"except", "exit"} => TruncatedEntryTable
    /\ ParseSucceeded =>
          /\ entries_count(header) = N
          /\ Len(entries) = N
          /\ \A k \in 1..N :
               /\ entries[k].flags = FlagsOf(input.kinds[k])
               /\ entries[k].offset = OffsetOf(input.kinds[k], N)
               /\ entries[k].file_size = input.kinds[k].size
               /\ entries[k].memory_size = input.kinds[k].msize

\* the table stops inside its second descriptor
C9_Witness ==
    /\ pc = "exit"
    /\ TruncatedEntryTable
    /\ N = 2
    /\ Len(entries) = 1
    /\ Len(input.file) = 32 + 32 + 31

\* the run of an input is expected to succeed
ExpectedSuccess ==
    /\ ParseRan
    /\ input.magic = PUP_MAGIC
    /\ Len(input.file) >= TableEnd
    /\ \A k \in 1..N : ~InflateFails(input.kinds[k]) /\ ~SeekFails(input.kinds[k])
    /\ input.fs0.kind # "file"
    /\ \A k \in 1..N :
         LET name == NameOf(input.kinds[k].id)
         IN  ~(name \in DOMAIN input.fs0.files /\ input.fs0.files[name].isdir)

Printed(line) == \E i \in 1..Len(out) : out[i] = line

\* an upper bound of the number of steps a run has left
Rank ==
    CASE pc = "main" -> 3 * N + 8
      [] pc = "open" -> 3 * N + 7
      [] pc = "header" -> 3 * N + 6
      [] pc = "entries" -> 3 * N + 5 - Len(entries)
      [] pc = "payload" -> 2 * N + 5 - pidx
      [] pc = "mkdir" -> N + 3
      [] pc = "write" -> N + 3 - widx
      [] pc = "except" -> 1
      [] pc = "exit" -> 0

\* C10: every run terminates (a step is possible until the script exits and
\* every step lowers Rank, a natural number), with exit status 0 exactly when
\* one argument was given, the file exists and parse and extract completed
\* without error, and with exit status 1 otherwise; the success message is
\* printed only after the file of the last entry was written.
C10_ExitCode ==
    /\ [](pc = "exit" \/ ENABLED Next)
    /\ [](Rank >= 0)
    /\ [][Rank' < Rank]_vars
    /\ [](/\ exit_code \in {-1, 0, 1}
          /\ pc = "exit" <=> exit_code # -1
          /\ pc = "exit" =>
               /\ exit_code = 0 <=> ExpectedSuccess
               /\ exit_code = 0 <=>
                    /\ input.argc = 2
                    /\ input.path # "missing"
                    /\ err = NoError
                    /\ pidx = Len(entries) + 1
                    /\ widx = Len(entries) + 1
          /\ Printed("extracted") =>
               /\ exit_code = 0
               /\ widx = N + 1
               /\ \A k \in 1..N : NameOf(input.kinds[k].id) \in DOMAIN fs.files)

C10_Witness ==
    /\ pc = "exit"
    /\ exit_code = 0
    /\ out = <<"extracted">>
    /\ N = MaxEntries
    /\ input.fs0.kind = "absent"

====
